---- MODULE Spec2Model ----
(***************************************************************************)
(* Model of bpf-profile's "generate" command: the trace parse loop         *)
(* (parse_trace_file), the call chain (Call), the registry of functions    *)
(* (Functions), the name resolver (Resolver) and the callgrind writer.     *)
(***************************************************************************)
EXTENDS Integers, Sequences, FiniteSets, TLC

(***************************************************************************)
(* Bounds of the model.                                                    *)
(***************************************************************************)
\* Longest free-form trace file, in lines.
MaxLines == 4
\* Longest body (run of plain instructions) of a call in a repeated-call trace.
MaxBody == 4
\* Largest number of repeated sibling calls in a repeated-call trace.
MaxRepeat == 2
\* Longest sequence of Resolver::update calls made on one resolver directly.
MaxUpdates == 4
\* Largest number of calls made by one function in a mixed-call trace.
MaxCalls == 3
\* Longest free-form trace file of the runs checked for termination.
MaxShort == 3

(***************************************************************************)
(* Addresses, program counters, names.                                     *)
(***************************************************************************)
\* config::GROUND_ZERO, the reserved address of the root call.
GROUND_ZERO == 255
\* Address::default()
AddressDefault == 0

RECURSIVE SumSeq(_)
SumSeq(s) == IF s = <<>> THEN 0 ELSE Head(s) + SumSeq(Tail(s))

Range(s) == {s[i] : i \in 1..Len(s)}

(***************************************************************************)
(* Hexadecimal text <-> Address.                                           *)
(***************************************************************************)
HexChars == <<"0","1","2","3","4","5","6","7","8","9","a","b","c","d","e","f">>

\* The value of one character in radix 16, or -1 when it is no digit.
DigitValue(c) ==
  IF \E i \in 1..16 : HexChars[i] = c
  THEN (CHOOSE i \in 1..16 : HexChars[i] = c) - 1
  ELSE CASE c = "A" -> 10 [] c = "B" -> 11 [] c = "C" -> 12
         [] c = "D" -> 13 [] c = "E" -> 14 [] c = "F" -> 15
         [] OTHER -> -1

\* format!("{:x}", n): lower-case hexadecimal digits, no prefix.
RECURSIVE ToHex(_)
ToHex(n) ==
  IF n < 16 THEN <<HexChars[n + 1]>>
  ELSE Append(ToHex(n \div 16), HexChars[(n % 16) + 1])

\* str::trim_start_matches("0x"): removes every leading repetition of "0x".
RECURSIVE TrimStart0x(_)
TrimStart0x(s) ==
  IF Len(s) >= 2 /\ s[1] = "0" /\ s[2] = "x"
  THEN TrimStart0x(SubSeq(s, 3, Len(s)))
  ELSE s

\* Address::from_str_radix(a, 16): the value, or -1 for Err (empty text, a
\* lone sign, a character that is no hexadecimal digit).
RECURSIVE Digits16(_, _)
Digits16(s, acc) ==
  IF s = <<>> THEN acc
  ELSE IF DigitValue(Head(s)) < 0 THEN -1
  ELSE Digits16(Tail(s), acc * 16 + DigitValue(Head(s)))

FromStrRadix16(s) ==
  IF s = <<>> THEN -1
  ELSE IF Head(s) = "+" THEN (IF Len(s) = 1 THEN -1 ELSE Digits16(Tail(s), 0))
  ELSE Digits16(s, 0)

\* hex_str_to_address: -1 stands for the panic of expect("Invalid address").
hex_str_to_address(s) == FromStrRadix16(TrimStart0x(s))

(***************************************************************************)
(* Trace lines.  A line carries the verdict of the line classifier (kind), *)
(* the program counter and the instruction text as whitespace tokens.      *)
(***************************************************************************)
\* The empty String: a cleared line, and what read_line leaves at end of file.
EmptyLine == [kind |-> "Skip", pc |-> 0, text |-> <<>>]

CallLine(p, tok) == [kind |-> "Call", pc |-> p, text |-> <<"call", tok>>]
ExitLine  == [kind |-> "Exit",  pc |-> 9, text |-> <<"exit">>]
OtherLine == [kind |-> "Other", pc |-> 3, text |-> <<"mov">>]
SkipLine  == [kind |-> "Skip",  pc |-> 0, text |-> <<"#">>]
BadLine   == [kind |-> "Bad",   pc |-> 0, text |-> <<"?">>]
\* A call instruction without an address token.
BareCallLine == [kind |-> "Call", pc |-> 1, text |-> <<"call">>]

Tok10 == <<"0", "x", "1", "0">>
Tok20 == <<"0", "x", "2", "0">>
Tok30 == <<"0", "x", "3", "0">>
TokZ  == <<"0", "x", "z">>

CallPCs == {1, 2}

Lines ==
  {CallLine(p, t) : p \in CallPCs, t \in {Tok10, Tok20}}
    \cup {CallLine(1, <<"0", "x">> \o ToHex(GROUND_ZERO)), CallLine(1, TokZ),
          BareCallLine, ExitLine, OtherLine, SkipLine, BadLine}

RECURSIVE Repeat(_, _)
Repeat(s, n) == IF n = 0 THEN <<>> ELSE s \o Repeat(s, n - 1)

\* Trace files with the same call made `times` times in a row, each with
\* `body` plain instructions, either from the root or from inside a call to
\* 0x10 that is closed afterwards.
RepeatedCallTrace(nested, tok, body, times) ==
  (IF nested THEN <<CallLine(1, Tok10)>> ELSE <<>>)
    \o Repeat(<<CallLine(2, tok)>> \o Repeat(<<OtherLine>>, body) \o <<ExitLine>>,
              times)
    \o (IF nested THEN <<ExitLine>> ELSE <<>>)

\* Trace files with a call to 0x10 that makes the calls `toks` one after
\* another, each from a call instruction of its own and with one plain
\* instruction, and is closed afterwards.
RECURSIVE CallsInTurn(_)
CallsInTurn(toks) ==
  IF toks = <<>> THEN <<>>
  ELSE <<CallLine(1 + Len(toks), Head(toks)), OtherLine, ExitLine>>
         \o CallsInTurn(Tail(toks))

MixedCallTrace(toks) == <<CallLine(1, Tok10)>> \o CallsInTurn(toks) \o <<ExitLine>>

CallSequences ==
  UNION {[1..n -> {Tok10, Tok20, Tok30}] : n \in 2..MaxCalls}

Scenarios ==
  {RepeatedCallTrace(n, tok, b, t) :
     n \in BOOLEAN, tok \in {Tok10, Tok20}, b \in 0..MaxBody, t \in 1..MaxRepeat}
    \cup {MixedCallTrace(toks) : toks \in CallSequences}

\* Instruction::parse: "ok" with the instruction, or the error it returns.
parse(l) ==
  CASE l.kind = "Skip" -> [ok |-> FALSE, err |-> "TraceSkipped"]
    [] l.kind = "Bad"  -> [ok |-> FALSE, err |-> "TraceParsing"]
    [] OTHER           -> [ok |-> TRUE,  err |-> "none"]

is_call(ix) == ix.kind = "Call"
is_exit(ix) == ix.kind = "Exit"

(***************************************************************************)
(* Map<K, V>: keys in insertion order plus the values.                     *)
(***************************************************************************)
MapNew == [keys |-> <<>>, val |-> <<>>]
contains_key(m, k) == k \in Range(m.keys)
MapGet(m, k) == m.val[CHOOSE i \in 1..Len(m.keys) : m.keys[i] = k]
MapInsert(m, k, v) ==
  IF contains_key(m, k)
  THEN [m EXCEPT !.val[CHOOSE i \in 1..Len(m.keys) : m.keys[i] = k] = v]
  ELSE [keys |-> Append(m.keys, k), val |-> Append(m.val, v)]

(***************************************************************************)
(* Resolver (the dump of function names).                                  *)
(***************************************************************************)
ResolverDefault ==
  [not_default |-> FALSE, functions |-> <<>>,
   index_function_by_address |-> MapNew,
   index_function_by_first_pc |-> MapNew,
   unresolved_counter |-> 0]

contains_function_with_first_pc(r, first_pc) ==
  contains_key(r.index_function_by_first_pc, first_pc)

\* Returns the resolver with the name appended and indexed by first_pc; the
\* new index is Len(r.functions) (0-based, as in the code).
update_first_pc_index(r, name, first_pc) ==
  [r EXCEPT !.functions = Append(@, name),
            !.index_function_by_first_pc = MapInsert(@, first_pc, Len(r.functions))]

\* What parse_dump_file leaves: a dump with one function starting at pc 1.
ResolverRead ==
  [update_first_pc_index(ResolverDefault, <<"entrypoint">>, 1)
     EXCEPT !.not_default = TRUE]

\* format!("{}", n): decimal digits.
RECURSIVE ToDec(_)
ToDec(n) ==
  IF n < 10 THEN <<HexChars[n + 1]>>
  ELSE Append(ToDec(n \div 10), HexChars[(n % 10) + 1])

\* A name that leaves the counter out.
UnresolvedName_NoCounter(counter, address) ==
  <<"function_", " (0x">> \o ToHex(address) \o <<")">>

\* format!("{}{} (0x{:x})", PREFIX_OF_UNRESOLVED, counter, address)
UnresolvedName(counter, address) ==
  <<"function_">> \o ToDec(counter) \o <<" (0x">> \o ToHex(address) \o <<")">>

\* An update that gives every unknown address a name of its own, whatever its
\* first_pc.
ResolverUpdate_NoCopies(r, address, first_pc) ==
  LET r1 ==
        IF contains_key(r.index_function_by_address, address) THEN r
        ELSE LET name == UnresolvedName(r.unresolved_counter, address)
                 r0 == [r EXCEPT !.unresolved_counter = @ + 1]
                 r2 == update_first_pc_index(r0, name, first_pc)
             IN [r2 EXCEPT !.index_function_by_address =
                   MapInsert(@, address, Len(r0.functions))]
  IN [dump |-> r1,
      name |-> r1.functions[MapGet(r1.index_function_by_address, address) + 1]]

\* Resolver::update: [dump |-> the resolver afterwards, name |-> the result].
ResolverUpdate(r, address, first_pc) ==
  LET r1 ==
        IF contains_key(r.index_function_by_address, address) THEN r
        ELSE IF contains_function_with_first_pc(r, first_pc)
        THEN [r EXCEPT !.index_function_by_address =
                MapInsert(@, address, MapGet(r.index_function_by_first_pc, first_pc))]
        ELSE LET name == UnresolvedName(r.unresolved_counter, address)
                 r0 == [r EXCEPT !.unresolved_counter = @ + 1]
                 r2 == update_first_pc_index(r0, name, first_pc)
             IN [r2 EXCEPT !.index_function_by_address =
                   MapInsert(@, address, Len(r0.functions))]
  IN [dump |-> r1,
      name |-> r1.functions[MapGet(r1.index_function_by_address, address) + 1]]

(***************************************************************************)
(* Call: one frame of the chain.  The chain ground -> callee -> callee...  *)
(* is a sequence, root first, innermost last.  `id` is the number of the   *)
(* Call line that pushed the frame (0 for the root); it is history only.   *)
(***************************************************************************)
CallNew(address, id) ==
  [address |-> address, caller |-> AddressDefault, cost |-> 0, depth |-> 0, id |-> id]

is_ground(call) == call.address = GROUND_ZERO

\* Function::ground_zero
FunctionGroundZero ==
  [address |-> GROUND_ZERO, name |-> <<"GROUND_ZERO">>, pc |-> 0, cost |-> 0,
   calls |-> <<>>]

\* Function::new; the name comes from the resolver.
FunctionNew(address, first_pc, name) ==
  [address |-> address, name |-> name, pc |-> first_pc, cost |-> 0, calls |-> <<>>]

\* Function::total_cost
total_cost(f) == f.cost + SumSeq([i \in 1..Len(f.calls) |-> f.calls[i].cost])

\* Call::increment_cost on the chain: the innermost frame gets the unit.
CallIncrementCost(chain) == [chain EXCEPT ![Len(chain)].cost = @ + 1]

\* A registry that books no unit while the root is the innermost frame.
FunctionsIncrementCost_NotForRoot(fns, chain) ==
  LET a == chain[Len(chain)].address
  IN IF a = GROUND_ZERO THEN fns
     ELSE MapInsert(fns, a, [MapGet(fns, a) EXCEPT !.cost = @ + 1])

\* The registry side of Call::increment_cost.
FunctionsIncrementCost(fns, chain) ==
  LET a == chain[Len(chain)].address
  IN MapInsert(fns, a, [MapGet(fns, a) EXCEPT !.cost = @ + 1])

\* A push that names the root as the caller of every new frame.
CallPushCall_CallerRoot(chain, call) ==
  Append([i \in 1..Len(chain) |-> [chain[i] EXCEPT !.depth = @ + 1]],
         [call EXCEPT !.caller = chain[1].address])

\* Call::push_call on the chain: every frame on the way down counts the new
\* depth, the innermost frame becomes the caller.
CallPushCall(chain, call) ==
  Append([i \in 1..Len(chain) |-> [chain[i] EXCEPT !.depth = @ + 1]],
         [call EXCEPT !.caller = chain[Len(chain)].address])

\* A pop that detaches the innermost frame without folding its cost.
CallPopCall_NoFold(chain) ==
  LET n == Len(chain)
  IN [chain |-> [i \in 1..(n - 1) |-> [chain[i] EXCEPT !.depth = @ - 1]],
      call |-> chain[n]]

\* Call::pop_call on the chain (needs a callee: Len(chain) >= 2): the frames
\* above the innermost one uncount it; its cost is folded into its parent.
CallPopCall(chain) ==
  LET n == Len(chain)
      popped == chain[n]
  IN [chain |-> [i \in 1..(n - 1) |->
                   [chain[i] EXCEPT !.depth = @ - 1,
                                    !.cost = IF i = n - 1 THEN @ + popped.cost ELSE @]],
      call |-> popped]

\* A registry that records no call made by the root.
FunctionsAddCall_NotUnderRoot(fns, call) ==
  IF call.caller = GROUND_ZERO THEN fns
  ELSE MapInsert(fns, call.caller,
                 [MapGet(fns, call.caller) EXCEPT !.calls = Append(@, call)])

\* Profile::pop_call's registry side: the finished call goes to its caller.
FunctionsAddCall(fns, call) ==
  IF is_ground(call) THEN fns
  ELSE MapInsert(fns, call.caller,
                 [MapGet(fns, call.caller) EXCEPT !.calls = Append(@, call)])

(***************************************************************************)
(* The callgrind writer.                                                   *)
(***************************************************************************)
\* Statistics that count the calls of a callee but keep its first cost.
RECURSIVE Statistics_FirstCost(_, _)
Statistics_FirstCost(calls, n) ==
  IF n = 0 THEN MapNew
  ELSE LET st == Statistics_FirstCost(calls, n - 1)
           c == calls[n]
       IN IF ~contains_key(st, c.address)
          THEN MapInsert(st, c.address, <<1, c.cost>>)
          ELSE LET old == MapGet(st, c.address)
               IN MapInsert(st, c.address, <<old[1] + 1, old[2]>>)

\* Statistics that sum the costs of a callee but never count past one call.
RECURSIVE Statistics_NoCount(_, _)
Statistics_NoCount(calls, n) ==
  IF n = 0 THEN MapNew
  ELSE LET st == Statistics_NoCount(calls, n - 1)
           c == calls[n]
       IN IF ~contains_key(st, c.address)
          THEN MapInsert(st, c.address, <<1, c.cost>>)
          ELSE LET old == MapGet(st, c.address)
               IN MapInsert(st, c.address, <<old[1], old[2] + c.cost>>)

\* The statistics map of one function: callee address -> <<count, cost>>.
RECURSIVE Statistics(_, _)
Statistics(calls, n) ==
  IF n = 0 THEN MapNew
  ELSE LET st == Statistics(calls, n - 1)
           c == calls[n]
       IN IF ~contains_key(st, c.address)
          THEN MapInsert(st, c.address, <<1, c.cost>>)
          ELSE LET old == MapGet(st, c.address)
               IN MapInsert(st, c.address, <<old[1] + 1, old[2] + c.cost>>)

RECURSIVE Flatten(_)
Flatten(ss) == IF ss = <<>> THEN <<>> ELSE Head(ss) \o Flatten(Tail(ss))

\* The three lines written for one entry of the statistics map of f.
CalleeBlock(fns, f, a, s) ==
  << [tag |-> "cfn", name |-> MapGet(fns, a).name],
     [tag |-> "calls", count |-> s[1], pc |-> MapGet(fns, a).pc],
     [tag |-> "cost", pc |-> f.pc, cost |-> s[2]] >>

\* A loop body that does not skip GROUND_ZERO.
FunctionBlock_WithRoot(fns, a) ==
  LET f == MapGet(fns, a)
      st == Statistics(f.calls, Len(f.calls))
  IN << [tag |-> "blank"],
        [tag |-> "fn", name |-> f.name],
        [tag |-> "cost", pc |-> f.pc, cost |-> f.cost] >>
     \o Flatten([j \in 1..Len(st.keys) |->
                   CalleeBlock(fns, f, st.keys[j], st.val[j])])

\* What the loop body of write_callgrind_functions writes for (a, f).
FunctionBlock(fns, a) ==
  LET f == MapGet(fns, a)
      st == Statistics(f.calls, Len(f.calls))
  IN IF a = GROUND_ZERO THEN <<>>
     ELSE << [tag |-> "blank"],
             [tag |-> "fn", name |-> f.name],
             [tag |-> "cost", pc |-> f.pc, cost |-> f.cost] >>
          \o Flatten([j \in 1..Len(st.keys) |->
                        CalleeBlock(fns, f, st.keys[j], st.val[j])])

\* A writer that goes through the registry from its last entry to its first.
write_callgrind_functions_Reversed(fns) ==
  Flatten([i \in 1..Len(fns.keys) |->
             FunctionBlock(fns, fns.keys[Len(fns.keys) + 1 - i])])

write_callgrind_functions(fns) ==
  Flatten([i \in 1..Len(fns.keys) |-> FunctionBlock(fns, fns.keys[i])])

\* Profile::write_callgrind
write_callgrind(file, fns) ==
  << [tag |-> "text", text |-> "# callgrind format"],
     [tag |-> "text", text |-> "version: 1"],
     [tag |-> "text", text |-> "creator: bpf-profile"],
     [tag |-> "text", text |-> "events: Instructions"],
     [tag |-> "totals", cost |-> total_cost(MapGet(fns, GROUND_ZERO))],
     [tag |-> "fl", file |-> file] >>
    \o write_callgrind_functions(fns)

(***************************************************************************)
(* State.                                                                  *)
(***************************************************************************)
VARIABLES
  reader,      \* the line source: what is left of the trace file
  line,        \* parse_trace_file's line buffer
  bytes_read,  \* result of the last read_line (0 at end of file)
  lc,          \* line counter
  at,          \* where the run is
  error,       \* the Err value parse_trace_file returned, if any
  ground,      \* Profile.ground: the chain of calls, root first
  functions,   \* Profile.functions
  dump,        \* Profile.dump: the resolver
  output,      \* what write_callgrind wrote
  consumed,    \* history: the lines read from the file so far
  events,      \* history: one entry per unit of cost attributed
  header,      \* whether the trace file starts with the standard header
  log,         \* history: the steps run has taken
  resolved     \* history: the calls of Resolver::update and their results

vars == <<reader, line, bytes_read, lc, at, error, ground, functions, dump,
          output, consumed, events, header, log, resolved>>

\* The path of the trace file, as run gets it.
TraceFile == "trace"

NoError == [err |-> "none", text |-> <<>>, lc |-> 0]

\* The state in which run is entered, with the locals of parse_trace_file as
\* they are before its loop; no profile exists yet (no chain, no registry).
\* The trace file is either any file of up to n lines (reader.any: its lines
\* are chosen as they are read, reader.max is n) or one of the given traces,
\* with or without the standard header.  bytes_read only matters as zero or
\* not: 1 stands for usize::MAX and for any line read.
InitWith(n, traces) ==
  /\ reader \in {[any |-> TRUE, rest |-> <<>>, max |-> n]}
                  \cup {[any |-> FALSE, rest |-> t, max |-> 0] : t \in traces}
  /\ header \in BOOLEAN
  /\ line = EmptyLine
  /\ bytes_read = 1
  /\ lc = 0
  /\ at = "run"
  /\ error = NoError
  /\ ground = <<>>
  /\ functions = MapNew
  /\ dump = ResolverDefault
  /\ output = <<>>
  /\ consumed = <<>>
  /\ events = <<>>
  /\ log = <<>>
  /\ resolved = <<>>

Init == InitWith(MaxLines, Scenarios)

\* Every trace file of up to MaxShort lines, with or without the header.
InitShort == InitWith(MaxShort, {})

(***************************************************************************)
(* run, up to the call of parse_trace_file.                                *)
(***************************************************************************)
\* A run that reads the dump before it refuses the trace.
RunRefuse_AfterDump ==
  /\ at = "run" /\ ~header
  /\ log' = log \o <<"contains_standard_header", "dump::read">>
  /\ error' = [err |-> "TraceFormat", text |-> <<TraceFile>>, lc |-> 0]
  /\ at' = "refused"
  /\ UNCHANGED <<reader, line, bytes_read, lc, ground, functions, dump, output,
                 consumed, events, header, resolved>>

\* The trace file lacks the standard header: Err(Error::TraceFormat(trace_file)).
RunRefuse ==
  /\ at = "run" /\ ~header
  /\ log' = Append(log, "contains_standard_header")
  /\ error' = [err |-> "TraceFormat", text |-> <<TraceFile>>, lc |-> 0]
  /\ at' = "refused"
  /\ UNCHANGED <<reader, line, bytes_read, lc, ground, functions, dump, output,
                 consumed, events, header, resolved>>

\* The header is there: dump::read (no dump file, or a dump that was read),
\* then Profile::create makes the profile (Profile::new) and starts the parse.
RunCreate ==
  /\ at = "run" /\ header
  /\ log' = log \o <<"contains_standard_header", "dump::read", "Profile::create">>
  /\ dump' \in {ResolverDefault, ResolverRead}
  /\ ground' = <<CallNew(GROUND_ZERO, 0)>>
  /\ functions' = MapInsert(MapNew, GROUND_ZERO, FunctionGroundZero)
  /\ at' = "outer"
  /\ UNCHANGED <<reader, line, bytes_read, lc, error, output, consumed, events,
                 header, resolved>>

(***************************************************************************)
(* fileutil::read_line: replaces the buffer by the next line of the file   *)
(* and returns the bytes read; at end of file the buffer is left empty.    *)
(***************************************************************************)
ReadLine ==
  IF reader.any
  THEN {[line |-> l, bytes_read |-> 1, reader |-> reader] :
          l \in IF Len(consumed) < reader.max THEN Lines ELSE {}}
       \cup {[line |-> EmptyLine, bytes_read |-> 0,
              reader |-> [any |-> FALSE, rest |-> <<>>, max |-> 0]]}
  ELSE IF reader.rest = <<>>
       THEN {[line |-> EmptyLine, bytes_read |-> 0, reader |-> reader]}
       ELSE {[line |-> Head(reader.rest), bytes_read |-> 1,
              reader |-> [reader EXCEPT !.rest = Tail(@)]]}

\* The head of one iteration of the outer loop: read only into an empty buffer.
OuterFetch ==
  IF line = EmptyLine
  THEN {[line |-> x.line, bytes_read |-> x.bytes_read, reader |-> x.reader,
         lc |-> lc + 1] : x \in ReadLine}
  ELSE {[line |-> line, bytes_read |-> bytes_read, reader |-> reader, lc |-> lc]}

\* The history of lines read, after a fetch that started at line count `old`.
Consume(old, new) ==
  IF new.lc > old /\ new.bytes_read # 0 THEN Append(consumed, new.line) ELSE consumed

\* Profile::increment_cost as a history entry: the ids of the open frames.
Event(chain, n) ==
  [lc |-> n, chain |-> [i \in 1..Len(chain) |-> chain[i].id]]


(***************************************************************************)
(* parse_trace_file.  One action per way through one iteration of the      *)
(* outer loop and of the inner loop over consecutive calls.                *)
(***************************************************************************)
\* A Skip branch that continues without clearing the line.
OuterSkip_NoClear ==
  /\ at = "outer" /\ bytes_read # 0
  /\ \E f \in OuterFetch :
       /\ parse(f.line).err = "TraceSkipped"
       /\ line' = f.line
       /\ bytes_read' = f.bytes_read /\ lc' = f.lc /\ reader' = f.reader
       /\ consumed' = Consume(lc, f)
  /\ UNCHANGED <<at, error, ground, functions, dump, output, events, header, log,
                 resolved>>

\* Skip: the line is cleared and the loop continues.
OuterSkip ==
  /\ at = "outer" /\ bytes_read # 0
  /\ \E f \in OuterFetch :
       /\ parse(f.line).err = "TraceSkipped"
       /\ line' = EmptyLine
       /\ bytes_read' = f.bytes_read /\ lc' = f.lc /\ reader' = f.reader
       /\ consumed' = Consume(lc, f)
  /\ UNCHANGED <<at, error, ground, functions, dump, output, events, header, log,
                 resolved>>

\* Any other failure of Instruction::parse is returned by `ixr?`.  parse is
\* not given the line count, so the error is recorded with lc 0.
OuterFail ==
  /\ at = "outer" /\ bytes_read # 0
  /\ \E f \in OuterFetch :
       /\ ~parse(f.line).ok /\ parse(f.line).err # "TraceSkipped"
       /\ line' = f.line
       /\ bytes_read' = f.bytes_read /\ lc' = f.lc /\ reader' = f.reader
       /\ consumed' = Consume(lc, f)
       /\ error' = [err |-> parse(f.line).err, text |-> f.line.text, lc |-> 0]
  /\ at' = "returned_err"
  /\ UNCHANGED <<ground, functions, dump, output, events, header, log, resolved>>

\* An exit branch that drops an Exit line when no call is open.
OuterExit_IgnoredAtRoot ==
  /\ at = "outer" /\ bytes_read # 0
  /\ \E f \in OuterFetch :
       /\ parse(f.line).ok /\ is_exit(f.line)
       /\ bytes_read' = f.bytes_read /\ lc' = f.lc /\ reader' = f.reader
       /\ consumed' = Consume(lc, f)
       /\ events' = Append(events, Event(ground, f.lc))
       /\ LET g1 == CallIncrementCost(ground)
              f1 == FunctionsIncrementCost(functions, ground)
          IN IF Len(g1) < 2
             THEN /\ at' = at
                  /\ ground' = g1 /\ functions' = f1 /\ line' = EmptyLine
             ELSE /\ at' = at
                  /\ ground' = CallPopCall(g1).chain
                  /\ functions' = FunctionsAddCall(f1, CallPopCall(g1).call)
                  /\ line' = EmptyLine
  /\ UNCHANGED <<error, dump, output, header, log, resolved>>

\* Exit: increment_cost, then pop_call; pop_call asserts that a call is open.
OuterExit ==
  /\ at = "outer" /\ bytes_read # 0
  /\ \E f \in OuterFetch :
       /\ parse(f.line).ok /\ is_exit(f.line)
       /\ bytes_read' = f.bytes_read /\ lc' = f.lc /\ reader' = f.reader
       /\ consumed' = Consume(lc, f)
       /\ events' = Append(events, Event(ground, f.lc))
       /\ LET g1 == CallIncrementCost(ground)
              f1 == FunctionsIncrementCost(functions, ground)
          IN IF Len(g1) < 2
             THEN /\ at' = "panicked"
                  /\ ground' = g1 /\ functions' = f1 /\ line' = f.line
             ELSE /\ at' = at
                  /\ ground' = CallPopCall(g1).chain
                  /\ functions' = FunctionsAddCall(f1, CallPopCall(g1).call)
                  /\ line' = EmptyLine
  /\ UNCHANGED <<error, dump, output, header, log, resolved>>

\* Neither exit nor call: increment_cost.
OuterOther ==
  /\ at = "outer" /\ bytes_read # 0
  /\ \E f \in OuterFetch :
       /\ parse(f.line).ok /\ ~is_exit(f.line) /\ ~is_call(f.line)
       /\ line' = EmptyLine
       /\ bytes_read' = f.bytes_read /\ lc' = f.lc /\ reader' = f.reader
       /\ consumed' = Consume(lc, f)
       /\ events' = Append(events, Event(ground, f.lc))
  /\ ground' = CallIncrementCost(ground)
  /\ functions' = FunctionsIncrementCost(functions, ground)
  /\ UNCHANGED <<at, error, dump, output, header, log, resolved>>

\* A call: control reaches `while ix.is_call()` with the line still held.
OuterCall ==
  /\ at = "outer" /\ bytes_read # 0
  /\ \E f \in OuterFetch :
       /\ parse(f.line).ok /\ is_call(f.line)
       /\ line' = f.line
       /\ bytes_read' = f.bytes_read /\ lc' = f.lc /\ reader' = f.reader
       /\ consumed' = Consume(lc, f)
  /\ at' = "inner"
  /\ UNCHANGED <<error, ground, functions, dump, output, events, header, log,
                 resolved>>

\* Call::from finds no address token: Err(TraceParsing(text, lc)).
InnerNoAddress ==
  /\ at = "inner"
  /\ Len(line.text) < 2
  /\ ground' = CallIncrementCost(ground)
  /\ functions' = FunctionsIncrementCost(functions, ground)
  /\ events' = Append(events, Event(ground, lc))
  /\ error' = [err |-> "TraceParsing", text |-> line.text, lc |-> lc]
  /\ at' = "returned_err"
  /\ UNCHANGED <<reader, line, bytes_read, lc, dump, output, consumed, header,
                 log, resolved>>

\* hex_str_to_address panics on a token that is no hexadecimal number.
InnerInvalidAddress ==
  /\ at = "inner"
  /\ Len(line.text) >= 2
  /\ hex_str_to_address(line.text[2]) < 0
  /\ ground' = CallIncrementCost(ground)
  /\ functions' = FunctionsIncrementCost(functions, ground)
  /\ events' = Append(events, Event(ground, lc))
  /\ at' = "panicked"
  /\ UNCHANGED <<reader, line, bytes_read, lc, error, dump, output, consumed,
                 header, log, resolved>>

\* One call of Resolver::update, for the history.
Resolution(address, first_pc, name) ==
  [address |-> address, first_pc |-> first_pc, name |-> name]

\* A loop that pushes the frame first and attributes the unit afterwards.
Pushed_UnitToCallee ==
  LET address == hex_str_to_address(line.text[2])
      g2 == CallPushCall(ground, CallNew(address, lc))
      res == ResolverUpdate(dump, address, line.pc)
      f2 == IF contains_key(functions, address) THEN functions
            ELSE MapInsert(functions, address, FunctionNew(address, line.pc, res.name))
  IN [ground |-> CallIncrementCost(g2),
      functions |-> FunctionsIncrementCost(f2, g2),
      dump |-> IF contains_key(functions, address) THEN dump ELSE res.dump,
      resolved |-> IF contains_key(functions, address) THEN resolved
                   ELSE Append(resolved, Resolution(address, line.pc, res.name))]

\* A push that makes the function record anew on every call.
Pushed_AlwaysCreates ==
  LET address == hex_str_to_address(line.text[2])
      g1 == CallIncrementCost(ground)
      f1 == FunctionsIncrementCost(functions, ground)
      g2 == CallPushCall(g1, CallNew(address, lc))
      res == ResolverUpdate(dump, address, line.pc)
  IN IF address = GROUND_ZERO
     THEN [ground |-> g2, functions |-> f1, dump |-> dump, resolved |-> resolved]
     ELSE [ground |-> g2,
           functions |-> MapInsert(f1, address, FunctionNew(address, line.pc, res.name)),
           dump |-> res.dump,
           resolved |-> Append(resolved, Resolution(address, line.pc, res.name))]

\* A push that leaves the registry alone.
Pushed_NoRecord ==
  LET address == hex_str_to_address(line.text[2])
      g1 == CallIncrementCost(ground)
      f1 == FunctionsIncrementCost(functions, ground)
      g2 == CallPushCall(g1, CallNew(address, lc))
  IN [ground |-> g2, functions |-> f1, dump |-> dump, resolved |-> resolved]

\* Profile::push_call after Profile::increment_cost:
\* [ground, functions, dump, resolved] after the call line held in `line`.
Pushed ==
  LET address == hex_str_to_address(line.text[2])
      g1 == CallIncrementCost(ground)
      f1 == FunctionsIncrementCost(functions, ground)
      g2 == CallPushCall(g1, CallNew(address, lc))
      res == ResolverUpdate(dump, address, line.pc)
  IN IF contains_key(f1, address)
     THEN [ground |-> g2, functions |-> f1, dump |-> dump, resolved |-> resolved]
     ELSE [ground |-> g2,
           functions |-> MapInsert(f1, address, FunctionNew(address, line.pc, res.name)),
           dump |-> res.dump,
           resolved |-> Append(resolved, Resolution(address, line.pc, res.name))]

\* One iteration of the inner loop whose next line is an instruction.
InnerPush ==
  /\ at = "inner"
  /\ Len(line.text) >= 2
  /\ hex_str_to_address(line.text[2]) >= 0
  /\ \E x \in ReadLine :
       /\ parse(x.line).ok
       /\ line' = x.line /\ bytes_read' = x.bytes_read /\ reader' = x.reader
       /\ consumed' = IF x.bytes_read # 0 THEN Append(consumed, x.line) ELSE consumed
       /\ at' = IF is_call(x.line) THEN "inner" ELSE "outer"
  /\ lc' = lc + 1
  /\ ground' = Pushed.ground /\ functions' = Pushed.functions /\ dump' = Pushed.dump
  /\ resolved' = Pushed.resolved
  /\ events' = Append(events, Event(ground, lc))
  /\ UNCHANGED <<error, output, header, log>>

\* One iteration of the inner loop whose next line Instruction::parse
\* rejects: `Instruction::parse(&line)?` returns the error, Skip included.
InnerPushFail ==
  /\ at = "inner"
  /\ Len(line.text) >= 2
  /\ hex_str_to_address(line.text[2]) >= 0
  /\ \E x \in ReadLine :
       /\ ~parse(x.line).ok
       /\ line' = x.line /\ bytes_read' = x.bytes_read /\ reader' = x.reader
       /\ consumed' = IF x.bytes_read # 0 THEN Append(consumed, x.line) ELSE consumed
       /\ error' = [err |-> parse(x.line).err, text |-> x.line.text, lc |-> 0]
  /\ at' = "returned_err"
  /\ lc' = lc + 1
  /\ ground' = Pushed.ground /\ functions' = Pushed.functions /\ dump' = Pushed.dump
  /\ resolved' = Pushed.resolved
  /\ events' = Append(events, Event(ground, lc))
  /\ UNCHANGED <<output, header, log>>

\* `while bytes_read != 0` ends: Ok(()).
Return ==
  /\ at = "outer" /\ bytes_read = 0
  /\ at' = "returned_ok"
  /\ UNCHANGED <<reader, line, bytes_read, lc, error, ground, functions, dump,
                 output, consumed, events, header, log, resolved>>

\* run: the profile is written once the trace is parsed.
WriteCallgrind ==
  /\ at = "returned_ok"
  /\ output' = write_callgrind(TraceFile, functions)
  /\ log' = Append(log, "write_callgrind")
  /\ at' = "written"
  /\ UNCHANGED <<reader, line, bytes_read, lc, error, ground, functions, dump,
                 consumed, events, header, resolved>>

Next ==
  \/ RunRefuse \/ RunCreate
  \/ OuterSkip \/ OuterFail \/ OuterExit \/ OuterOther \/ OuterCall
  \/ InnerNoAddress \/ InnerInvalidAddress \/ InnerPush \/ InnerPushFail
  \/ Return \/ WriteCallgrind

Spec == Init /\ [][Next]_vars

\* run is one sequential thread: whenever it has a next step, it takes it.
FairSpec == InitShort /\ [][Next]_vars /\ WF_vars(Next)

(***************************************************************************)
(* The resolver on its own: any sequence of up to MaxUpdates calls of      *)
(* Resolver::update on a resolver as dump::read returns it.                *)
(***************************************************************************)
ResolverAddresses == {16, 32, 48, GROUND_ZERO}
ResolverPCs == {1, 2, 3}

InitResolver ==
  /\ dump \in {ResolverDefault, ResolverRead}
  /\ resolved = <<>>
  /\ at = "resolver"
  /\ reader = [any |-> FALSE, rest |-> <<>>, max |-> 0]
  /\ header = TRUE
  /\ line = EmptyLine
  /\ bytes_read = 1
  /\ lc = 0
  /\ error = NoError
  /\ ground = <<>>
  /\ functions = MapNew
  /\ output = <<>>
  /\ consumed = <<>>
  /\ events = <<>>
  /\ log = <<>>

\* One call of Resolver::update; assert_ne!(address, GROUND_ZERO) comes first.
Update ==
  /\ at = "resolver"
  /\ Len(resolved) < MaxUpdates
  /\ \E address \in ResolverAddresses, first_pc \in ResolverPCs :
       IF address = GROUND_ZERO
       THEN at' = "panicked" /\ UNCHANGED <<dump, resolved>>
       ELSE /\ dump' = ResolverUpdate(dump, address, first_pc).dump
            /\ resolved' = Append(resolved,
                 Resolution(address, first_pc,
                            ResolverUpdate(dump, address, first_pc).name))
            /\ at' = at
  /\ UNCHANGED <<reader, line, bytes_read, lc, error, ground, functions, output,
                 consumed, events, header, log>>

NextResolver == Update

ResolverSpec == InitResolver /\ [][NextResolver]_vars


(***************************************************************************)
(* Properties.                                                             *)
(***************************************************************************)
Alive == at \in {"outer", "inner", "returned_ok", "written"}
Accepted == at \in {"returned_ok", "written"}

\* The line read last is still held unprocessed in the buffer.
Held == at \in {"outer", "inner"} /\ line # EmptyLine

\* The lines of the file that the loop has dealt with.
Processed == IF Held THEN SubSeq(consumed, 1, Len(consumed) - 1) ELSE consumed

IsInstruction(l) == l.kind \in {"Call", "Exit", "Other"}
InstructionCount(ls) == Cardinality({i \in 1..Len(ls) : IsInstruction(ls[i])})

\* All function records, the root's included.
Records == [i \in 1..Len(functions.keys) |-> functions.val[i]]
ExclusiveSum == SumSeq([i \in 1..Len(Records) |-> Records[i].cost])

\* The number of units attributed for line number n.
UnitsOfLine(n) == Cardinality({e \in 1..Len(events) : events[e].lc = n})

\* C1: while the parse has not failed, the exclusive costs of all function
\* records (GROUND_ZERO holds the root's own) add up to the number of
\* non-Skip lines processed so far; each Call, Exit and Other line has been
\* counted exactly once and no Skip line has been counted.
C1_CostConservation ==
  Alive =>
    /\ ExclusiveSum = InstructionCount(Processed)
    /\ \A n \in 1..Len(Processed) :
         UnitsOfLine(n) = IF IsInstruction(Processed[n]) THEN 1 ELSE 0

C1_Witness ==
  /\ at = "written"
  /\ {"Call", "Exit", "Other", "Skip"} \subseteq {consumed[i].kind : i \in 1..Len(consumed)}
  /\ ExclusiveSum = InstructionCount(consumed)
  /\ ExclusiveSum >= 3
  /\ Len(functions.keys) >= 2


(***************************************************************************)
(* C2.                                                                     *)
(***************************************************************************)
Innermost(chain) == chain[Len(chain)]
CostOf(fns, a) == MapGet(fns, a).cost

\* A step of the inner loop that pushed a frame.
PushStep == at = "inner" /\ Len(ground') = Len(ground) + 1
\* A step that popped a frame.
PopStep == Len(ground') = Len(ground) - 1

\* The trace Call 0x10, Other, Exit.
IsCallOtherExit(ls) ==
  /\ Len(ls) = 3
  /\ ls[1].kind = "Call" /\ ls[1].text = <<"call", Tok10>>
  /\ ls[2].kind = "Other"
  /\ ls[3].kind = "Exit"

TotalsLine == output[5]

C2_CallUnit ==
  PushStep =>
    LET n == Len(ground)
        caller == ground[n]
        new == ground'[n + 1]
    IN /\ ground'[n].cost = caller.cost + 1
       /\ new.cost = 0
       /\ new.caller = caller.address
       /\ CostOf(functions', caller.address) = CostOf(functions, caller.address) + 1
       /\ \A a \in Range(functions'.keys) :
            a # caller.address =>
              CostOf(functions', a) = IF contains_key(functions, a)
                                      THEN CostOf(functions, a) ELSE 0

C2_ExitUnit ==
  PopStep =>
    LET n == Len(ground)
        popped == ground[n]
        rec == MapGet(functions', popped.caller)
    IN /\ CostOf(functions', popped.address) = CostOf(functions, popped.address) + 1
       /\ \A a \in Range(functions.keys) :
            a # popped.address => CostOf(functions', a) = CostOf(functions, a)
       /\ ground'[n - 1].cost = ground[n - 1].cost + popped.cost + 1
       /\ ~is_ground(popped) =>
            /\ Len(rec.calls) = Len(MapGet(functions, popped.caller).calls) + 1
            /\ rec.calls[Len(rec.calls)].id = popped.id
            /\ rec.calls[Len(rec.calls)].cost = popped.cost + 1

C2_Scenario ==
  (Accepted /\ IsCallOtherExit(consumed)) =>
    /\ CostOf(functions, 16) = 2
    /\ CostOf(functions, GROUND_ZERO) = 1
    /\ ground[1].cost = 3
    /\ total_cost(MapGet(functions, GROUND_ZERO)) = 3
    /\ at = "written" => TotalsLine = [tag |-> "totals", cost |-> 3]

\* C2: the unit of a Call line goes to the frame that was innermost before the
\* push (the caller) and to that frame's function record, never to the new
\* frame; the unit of an Exit line goes to the frame the Exit pops.  For the
\* trace Call 0x10, Other, Exit: function 0x10 has exclusive cost 2, the root
\* has self cost 1 and the grand total is 3.
C2_Attribution ==
  /\ [][C2_CallUnit /\ C2_ExitUnit]_vars
  /\ []C2_Scenario

C2_Witness ==
  /\ at = "written"
  /\ IsCallOtherExit(consumed)
  /\ CostOf(functions, 16) = 2


(***************************************************************************)
(* C3.                                                                     *)
(***************************************************************************)
\* Every call edge recorded by pop, whatever record holds it.
Edges == UNION {Range(Records[i].calls) : i \in 1..Len(Records)}

\* Units attributed while frame `id` was open (it or a descendant innermost).
UnitsWithin(id) ==
  Cardinality({e \in 1..Len(events) : id \in Range(events[e].chain)})
\* Units attributed while frame `id` itself was the innermost frame.
UnitsSelf(id) ==
  Cardinality({e \in 1..Len(events) : Innermost(events[e].chain) = id})
\* The completed calls made directly by frame `id`.
ChildEdges(id) ==
  {c \in Edges : \E e \in 1..Len(events) :
     LET ch == events[e].chain
     IN \E k \in 1..(Len(ch) - 1) : ch[k] = id /\ ch[k + 1] = c.id}

\* The ids of the frames pushed directly by frame `id`.
ChildIds(id) ==
  {x \in 1..lc : \E e \in 1..Len(events) :
     LET ch == events[e].chain
     IN \E k \in 1..(Len(ch) - 1) : ch[k] = id /\ ch[k + 1] = x}
\* Completed calls to the address GROUND_ZERO leave no edge (Profile::pop_call).
UnrecordedChildIds(id) == ChildIds(id) \ {c.id : c \in ChildEdges(id)}

RECURSIVE SumUnitsWithin(_)
SumUnitsWithin(S) ==
  IF S = {} THEN 0
  ELSE LET x == CHOOSE y \in S : TRUE IN UnitsWithin(x) + SumUnitsWithin(S \ {x})

RECURSIVE SumCosts(_)
SumCosts(S) ==
  IF S = {} THEN 0
  ELSE LET c == CHOOSE x \in S : TRUE IN c.cost + SumCosts(S \ {c})

\* C3: the inclusive cost stored with every recorded call edge is the number
\* of units attributed while that frame or one of its descendants was the
\* innermost frame: its own units of that invocation plus the inclusive costs
\* of the nested calls it completed; so it is at least its own units.
C3_InclusiveCost ==
  \A c \in Edges :
    /\ c.cost = UnitsWithin(c.id)
    /\ c.cost = UnitsSelf(c.id) + SumCosts(ChildEdges(c.id))
                  + SumUnitsWithin(UnrecordedChildIds(c.id))
    /\ c.cost >= UnitsSelf(c.id)

\* A recursive call completed inside a completed call to the same address,
\* which was made twice.
C3_Witness ==
  \E c, d, r \in Edges :
    /\ d \in ChildEdges(c.id) /\ r \in ChildEdges(c.id)
    /\ d.address = c.address
    /\ r.address = d.address /\ r.id # d.id
    /\ c.cost > UnitsSelf(c.id) + d.cost


(***************************************************************************)
(* C4.                                                                     *)
(***************************************************************************)
\* C4: once a trace has been parsed successfully, the root frame's cost is
\* the trace's instruction count (its non-Skip lines), and the report's
\* "totals:" line carries that number.
C4_GrandTotal ==
  /\ Accepted => ground[1].cost = InstructionCount(consumed)
  /\ at = "written" =>
       TotalsLine = [tag |-> "totals", cost |-> InstructionCount(consumed)]


(***************************************************************************)
(* C5.                                                                     *)
(***************************************************************************)
\* The length of the run of Call lines that ends at line n of ls.
RECURSIVE CallRun(_, _)
CallRun(ls, n) ==
  IF n = 0 \/ ls[n].kind # "Call" THEN 0 ELSE 1 + CallRun(ls, n - 1)

\* The loop is back in the outer loop holding the first line after a run of
\* calls.
AfterRun == at = "outer" /\ line # EmptyLine

\* All frames of the run are on the chain, in order, each called by the frame
\* below it, and no later line has been processed.
C5_RunPushed ==
  AfterRun =>
    LET n == Len(consumed)
        k == CallRun(consumed, n - 1)
        d == Len(ground)
    IN /\ k >= 1 /\ d >= k + 1
       /\ line = consumed[n] /\ line.kind # "Call"
       /\ \A j \in 1..k :
            /\ ground[d - k + j].id = n - 1 - k + j
            /\ ground[d - k + j].caller = ground[d - k + j - 1].address
            /\ ground[d - k + j].address = hex_str_to_address(consumed[n - 1 - k + j].text[2])
       /\ \A i \in 1..d : ground[i].depth = d - i
       /\ \A e \in 1..Len(events) : events[e].lc < n

\* The held line is dealt with in the next step, without another read, and
\* gets its one unit.
C5_HeldOnce ==
  AfterRun =>
    /\ consumed' = consumed /\ reader' = reader /\ lc' = lc
    /\ events' = Append(events, Event(ground, lc))
    /\ at' # "panicked" => line' = EmptyLine

\* An Exit closes the most recently pushed frame that is still open.
C5_Lifo ==
  PopStep =>
    LET n == Len(ground)
    IN /\ \A i \in 1..(n - 1) : ground[n].id > ground[i].id
       /\ \A i \in 1..(n - 1) :
            ground'[i].id = ground[i].id /\ ground'[i].address = ground[i].address
       /\ ~is_ground(ground[n]) => ground[n].id \in {c.id : c \in Edges'}
       /\ ground[n].id \notin {c.id : c \in Edges}

\* A unit goes to the record of the innermost frame's address and to no other.
C5_UnitToInnermost ==
  Len(events') = Len(events) + 1 =>
    \A a \in Range(functions.keys) :
      CostOf(functions', a) =
        CostOf(functions, a) + IF a = Innermost(ground).address THEN 1 ELSE 0

\* The trace Call 0x10, Call 0x20, Exit, Exit.
IsCallCallExitExit(ls) ==
  /\ Len(ls) = 4
  /\ ls[1].kind = "Call" /\ ls[1].text = <<"call", Tok10>>
  /\ ls[2].kind = "Call" /\ ls[2].text = <<"call", Tok20>>
  /\ ls[3].kind = "Exit"
  /\ ls[4].kind = "Exit"

C5_Scenario ==
  (Accepted /\ IsCallCallExitExit(consumed)) =>
    /\ [e \in 1..4 |-> events[e].chain] = << <<0>>, <<0, 1>>, <<0, 1, 2>>, <<0, 1>> >>
    /\ CostOf(functions, 32) = 1
    /\ CostOf(functions, 16) = 2
    /\ CostOf(functions, GROUND_ZERO) = 1
    /\ [i \in 1..1 |-> MapGet(functions, 16).calls[i].id] = <<2>>
    /\ [i \in 1..1 |-> MapGet(functions, GROUND_ZERO).calls[i].id] = <<1>>
    /\ Len(MapGet(functions, 16).calls) = 1
    /\ Len(MapGet(functions, GROUND_ZERO).calls) = 1
    /\ Len(ground) = 1

\* C5: after a run of k consecutive Call lines all k frames are on the chain,
\* each called by the previously innermost frame, before any other line is
\* processed; the line after the run is then processed once, without being
\* read again; every Exit closes the most recently pushed open frame; units
\* go to the innermost frame's function only.  For Call 0x10, Call 0x20, Exit,
\* Exit the frame of 0x20 is closed before that of 0x10.
C5_BackToBack ==
  /\ []C5_RunPushed
  /\ [][C5_HeldOnce /\ C5_Lifo /\ C5_UnitToInnermost]_vars
  /\ [](\A n \in 1..lc : UnitsOfLine(n) <= 1)
  /\ []C5_Scenario

C5_Witness ==
  /\ at = "written"
  /\ IsCallCallExitExit(consumed)
  /\ Len(MapGet(functions, 16).calls) = 1


(***************************************************************************)
(* C6, C7.                                                                 *)
(***************************************************************************)
CountKind(ls, n, k) == Cardinality({i \in 1..n : ls[i].kind = k})

\* Every line classifies (Call with a hexadecimal address, Exit, Other or
\* Skip) and no Exit comes without an open call.
WellFormed(ls) ==
  /\ \A i \in 1..Len(ls) :
       /\ ls[i].kind \in {"Call", "Exit", "Other", "Skip"}
       /\ ls[i].kind = "Call" =>
            Len(ls[i].text) >= 2 /\ hex_str_to_address(ls[i].text[2]) >= 0
  /\ \A n \in 1..Len(ls) : CountKind(ls, n, "Exit") <= CountKind(ls, n, "Call")

Failed == at \in {"returned_err", "panicked"}

\* C6: a trace whose lines all classify and whose Exit lines never outnumber
\* the preceding Call lines is parsed successfully, open frames or not,
\* whatever the kind of its last line.
C6_UnclosedAccepted == WellFormed(consumed) => ~Failed

\* A line was read in this step.
ReadStep == Len(consumed') = Len(consumed) + 1
LastRead == consumed'[Len(consumed')]

\* C7: a Skip line never makes the parse fail and changes neither the chain,
\* the registry nor any cost, wherever it stands; any other failure of the
\* classifier ends the parse at once.
C7_SkipAbsorbed ==
  /\ [][(ReadStep /\ LastRead.kind = "Skip") =>
          /\ ~Failed'
          /\ at = "outer" => UNCHANGED <<ground, functions, dump, events>>]_vars
  /\ [][(ReadStep /\ LastRead.kind = "Bad") =>
          (at' = "returned_err" /\ error'.err = "TraceParsing")]_vars


(***************************************************************************)
(* C8, C9, C10: reading the report back.                                   *)
(***************************************************************************)
\* Where the function blocks of the report start (their blank line).
BlockStarts == {i \in 1..Len(output) : output[i].tag = "blank"}
\* The last line of the block that starts at i.
BlockEnd(i) ==
  LET later == {j \in BlockStarts : j > i}
  IN IF later = {} THEN Len(output)
     ELSE (CHOOSE j \in later : \A k \in later : j <= k) - 1
\* Where the callee blocks of the function block at i start.
CalleeStarts(i) == {j \in (i + 3)..BlockEnd(i) : output[j].tag = "cfn"}

NonRootAddresses == Range(functions.keys) \ {GROUND_ZERO}
RecordOf(a) == MapGet(functions, a)
CalleeAddresses(f) == {f.calls[i].address : i \in 1..Len(f.calls)}
EdgesTo(f, c) == {i \in 1..Len(f.calls) : f.calls[i].address = c}

RECURSIVE SumEdgeCosts(_, _)
SumEdgeCosts(f, I) ==
  IF I = {} THEN 0
  ELSE LET i == CHOOSE x \in I : TRUE IN f.calls[i].cost + SumEdgeCosts(f, I \ {i})

Bijections(S, T) ==
  {m \in [S -> T] : (\A t \in T : \E x \in S : m[x] = t)
                      /\ Cardinality(S) = Cardinality(T)}

\* The three lines at j are the callee block of f for callee address c.
CalleeBlockIs(j, f, c) ==
  /\ j + 2 <= Len(output)
  /\ output[j] = [tag |-> "cfn", name |-> RecordOf(c).name]
  /\ output[j + 1] = [tag |-> "calls", count |-> Cardinality(EdgesTo(f, c)),
                      pc |-> RecordOf(c).pc]
  /\ output[j + 2] = [tag |-> "cost", pc |-> f.pc,
                      cost |-> SumEdgeCosts(f, EdgesTo(f, c))]

\* The block at i is the block of function a, its callee blocks standing for
\* the callee addresses as sigma says.
BlockIs(i, a, sigma) ==
  LET f == RecordOf(a)
  IN /\ output[i + 1] = [tag |-> "fn", name |-> f.name]
     /\ output[i + 2] = [tag |-> "cost", pc |-> f.pc, cost |-> f.cost]
     /\ BlockEnd(i) = i + 2 + 3 * Cardinality(CalleeStarts(i))
     /\ \A j \in CalleeStarts(i) : CalleeBlockIs(j, f, sigma[j])

\* C8: every emitted function f has exactly one callee block for every callee
\* address c among its call edges and none for any other address; the block
\* of c carries the number of edges f->c as calls= and the sum of their
\* inclusive costs as its cost.
C8_EdgeAggregation ==
  at = "written" =>
    \E pi \in Bijections(BlockStarts, NonRootAddresses) :
      \A i \in BlockStarts :
        \E sigma \in Bijections(CalleeStarts(i), CalleeAddresses(RecordOf(pi[i]))) :
          BlockIs(i, pi[i], sigma)

\* Two functions are written, one of which called the same callee more than
\* once.
C8_Witness ==
  /\ at = "written"
  /\ \E a \in NonRootAddresses :
       LET f == RecordOf(a)
       IN /\ Cardinality(CalleeAddresses(f)) >= 1
          /\ \E c \in CalleeAddresses(f) : Cardinality(EdgesTo(f, c)) >= 2
  /\ Cardinality(BlockStarts) = 2

\* f made exactly two calls to c, each of inclusive cost 5.
TwoCallsOfFive(f, c) ==
  /\ Cardinality(EdgesTo(f, c)) = 2
  /\ \A i \in EdgesTo(f, c) : f.calls[i].cost = 5

\* Some callee block of the report shows calls=2 and cost 10 for 0x20.
AggregatedBlockShown ==
  \E j \in 1..(Len(output) - 2) :
    /\ contains_key(functions, 32)
    /\ output[j] = [tag |-> "cfn", name |-> RecordOf(32).name]
    /\ output[j + 1] = [tag |-> "calls", count |-> 2, pc |-> RecordOf(32).pc]
    /\ output[j + 2].tag = "cost" /\ output[j + 2].cost = 10

\* C9 as stated: two separate calls from the root to 0x20, each of inclusive
\* cost 5, show in the report as one callee block with calls=2 and cost 10.
C9_RootAggregated ==
  (at = "written" /\ TwoCallsOfFive(RecordOf(GROUND_ZERO), 32)) => AggregatedBlockShown

\* C9 as amended: two separate calls from a function other than the root to
\* 0x20, each of inclusive cost 5, show in that function's block as one callee
\* block with calls=2 and cost 10; made from the root they show in no callee
\* block, only as part of the totals.
C9_CallerAggregated ==
  at = "written" =>
    /\ \E pi \in Bijections(BlockStarts, NonRootAddresses) :
         \A i \in BlockStarts :
           LET f == RecordOf(pi[i])
           IN \E sigma \in Bijections(CalleeStarts(i), CalleeAddresses(f)) :
                /\ BlockIs(i, pi[i], sigma)
                /\ TwoCallsOfFive(f, 32) =>
                     /\ Cardinality({j \in CalleeStarts(i) : sigma[j] = 32}) = 1
                     /\ \A j \in CalleeStarts(i) :
                          sigma[j] = 32 =>
                            output[j + 1].count = 2 /\ output[j + 2].cost = 10
    /\ TwoCallsOfFive(RecordOf(GROUND_ZERO), 32) =>
         /\ TotalsLine.cost >= 10
         /\ \A i \in BlockStarts :
              output[i + 1].name # RecordOf(GROUND_ZERO).name

C9_Witness ==
  /\ at = "written"
  /\ contains_key(functions, 16)
  /\ TwoCallsOfFive(RecordOf(16), 32)
  /\ AggregatedBlockShown

\* C10: the root is never written as a function block: the report has one
\* block per function other than the root and none names GROUND_ZERO; the
\* root's total cost stands on the one "totals:" line of the header.
C10_RootNotEmitted ==
  at = "written" =>
    LET root == RecordOf(GROUND_ZERO)
    IN /\ Cardinality(BlockStarts) = Cardinality(NonRootAddresses)
       /\ \A i \in 1..Len(output) :
            output[i].tag \in {"fn", "cfn"} => output[i].name # root.name
       /\ {i \in 1..Len(output) : output[i].tag = "totals"} = {5}
       /\ \A i \in BlockStarts : i > 6
       /\ TotalsLine.cost = root.cost + SumEdgeCosts(root, 1..Len(root.calls))

C10_Witness ==
  /\ at = "written"
  /\ RecordOf(GROUND_ZERO).cost >= 2
  /\ Len(RecordOf(GROUND_ZERO).calls) >= 1
  /\ Cardinality(BlockStarts) = 2


(***************************************************************************)
(* C11, C12: the resolver.                                                 *)
(***************************************************************************)
\* The call resolved[j] is the first one made for its address.
FirstSight(j) == \A k \in 1..(j - 1) : resolved[k].address # resolved[j].address

\* The same address always gets the same name.
StableNames ==
  \A i, j \in 1..Len(resolved) :
    resolved[i].address = resolved[j].address => resolved[i].name = resolved[j].name

\* C11 as stated: over any sequence of calls of Resolver::update the same
\* address always yields the same name, and two different addresses presented
\* with the same entry program counter yield the same name.
C11_SameName ==
  /\ StableNames
  /\ \A i, j \in 1..Len(resolved) :
       (resolved[i].address # resolved[j].address
          /\ resolved[i].first_pc = resolved[j].first_pc)
         => resolved[i].name = resolved[j].name

\* C11 as amended: the same address always yields the same name, and two
\* different addresses yield the same name when each of them is presented for
\* the first time with the same entry program counter; an address that
\* already has a name keeps it, whatever entry program counter comes with it.
C11_SameNameOnFirstSight ==
  /\ StableNames
  /\ \A i, j \in 1..Len(resolved) :
       (resolved[i].address # resolved[j].address
          /\ resolved[i].first_pc = resolved[j].first_pc
          /\ FirstSight(i) /\ FirstSight(j))
         => resolved[i].name = resolved[j].name

\* Two addresses have been unified under a synthetic name, and one of them
\* has come again with another entry program counter.
C11_Witness ==
  \E i, j, k \in 1..Len(resolved) :
    /\ i < j /\ j < k
    /\ FirstSight(i) /\ FirstSight(j)
    /\ resolved[i].first_pc = resolved[j].first_pc
    /\ resolved[i].name = resolved[j].name
    /\ resolved[i].name[1] = "function_"
    /\ resolved[k].address = resolved[i].address
    /\ resolved[k].first_pc # resolved[i].first_pc
    /\ resolved[k].name = resolved[i].name

\* Reading a synthetic name back: "function_", decimal digits, " (0x",
\* lower-case hexadecimal digits, ")".
IsDecimal(s) == s # <<>> /\ \A i \in 1..Len(s) : DigitValue(s[i]) \in 0..9
IsLowerHex(s) == s # <<>> /\ \A i \in 1..Len(s) : s[i] \in Range(HexChars)

RECURSIVE DecValue(_, _)
DecValue(s, acc) ==
  IF s = <<>> THEN acc ELSE DecValue(Tail(s), acc * 10 + DigitValue(Head(s)))

\* Where the address part of a name starts.
OpenAt(name) == {k \in 1..Len(name) : name[k] = " (0x"}
SynthOpen(name) == CHOOSE k \in OpenAt(name) : TRUE

IsSynthetic(name) ==
  /\ Len(name) >= 5
  /\ name[1] = "function_"
  /\ name[Len(name)] = ")"
  /\ Cardinality(OpenAt(name)) = 1
  /\ IsDecimal(SubSeq(name, 2, SynthOpen(name) - 1))
  /\ IsLowerHex(SubSeq(name, SynthOpen(name) + 1, Len(name) - 1))

SynthN(name) == DecValue(SubSeq(name, 2, SynthOpen(name) - 1), 0)
SynthAddress(name) == Digits16(SubSeq(name, SynthOpen(name) + 1, Len(name) - 1), 0)

\* The call resolved[i] made its name.
Created(i) ==
  /\ IsSynthetic(resolved[i].name)
  /\ \A k \in 1..(i - 1) : resolved[k].name # resolved[i].name

\* A call of Resolver::update has returned in this step.
UpdateStep == Len(resolved') = Len(resolved) + 1

C12_Step ==
  UpdateStep =>
    LET e == resolved'[Len(resolved')]
        n == dump.unresolved_counter
    IN IF /\ ~contains_key(dump.index_function_by_address, e.address)
          /\ ~contains_key(dump.index_function_by_first_pc, e.first_pc)
       THEN /\ IsSynthetic(e.name)
            /\ SynthN(e.name) = n
            /\ SynthAddress(e.name) = e.address
            /\ dump'.unresolved_counter = n + 1
       ELSE dump'.unresolved_counter = n

C12_Distinct ==
  /\ \A i, j \in 1..Len(resolved) :
       (i < j /\ Created(i) /\ Created(j)) =>
         /\ SynthN(resolved[i].name) < SynthN(resolved[j].name)
         /\ resolved[i].name # resolved[j].name
  /\ dump.unresolved_counter = Cardinality({i \in 1..Len(resolved) : Created(i)})

\* C12: an address unknown to the resolver whose entry program counter is
\* unknown too gets the name "function_<n> (0x<address>)", n being the
\* unresolved counter, which then goes up by one; no other resolution moves
\* the counter; so the synthetic names of one run are distinct and their n
\* increases in the order in which they were made.
C12_Unresolved ==
  /\ [][C12_Step]_vars
  /\ []C12_Distinct

\* Two unresolved addresses got function_0 and function_1, with a resolution
\* by a known entry program counter in between.
C12_Witness ==
  \E i, j, k \in 1..Len(resolved) :
    /\ i < j /\ j < k
    /\ Created(i) /\ SynthN(resolved[i].name) = 0
    /\ ~Created(j) /\ resolved[j].address # resolved[i].address
    /\ Created(k) /\ SynthN(resolved[k].name) = 1
    /\ resolved[k].address # resolved[i].address
    /\ SynthAddress(resolved[k].name) = resolved[k].address
    /\ dump.unresolved_counter = 2

(***************************************************************************)
(* C13.                                                                    *)
(***************************************************************************)
\* The outer loop deals with an Exit line in this step: the line it holds,
\* or else the line it reads.
HandlesExit ==
  /\ at = "outer"
  /\ IF line # EmptyLine THEN line.kind = "Exit"
     ELSE ReadStep /\ LastRead.kind = "Exit"

\* C13: an Exit line processed while only the root frame is on the chain
\* ends the run in a panic, from which nothing follows: the line is not
\* dropped, no profile is returned and nothing is written; so no accepted
\* trace has an Exit line without an open call before it.
C13_ExitAtRoot ==
  /\ [][(HandlesExit /\ Len(ground) = 1) => at' = "panicked"]_vars
  /\ [][at # "panicked"]_vars
  /\ [](at = "panicked" => output = <<>>)
  /\ [](Accepted =>
          \A n \in 1..Len(consumed) :
            CountKind(consumed, n, "Exit") <= CountKind(consumed, n, "Call"))

\* A call was made and closed, and the next Exit found only the root.
C13_Witness ==
  /\ at = "panicked"
  /\ Len(ground) = 1
  /\ Len(consumed) = 3
  /\ consumed[1].kind = "Call" /\ consumed[2].kind = "Exit" /\ consumed[3].kind = "Exit"
  /\ line = consumed[3]

(***************************************************************************)
(* C14.                                                                    *)
(***************************************************************************)
\* C14: when the trace file does not start with the standard header, run
\* fails with the trace-format error that names the trace file, having done
\* nothing but the header check: the dump is not read, no profile is made, no
\* line is read or parsed, nothing is written, and nothing follows.
C14_HeaderFirst ==
  /\ []((~header /\ at # "run") =>
          /\ at = "refused"
          /\ error = [err |-> "TraceFormat", text |-> <<TraceFile>>, lc |-> 0])
  /\ [](at = "refused" =>
          /\ ~header
          /\ log = <<"contains_standard_header">>
          /\ consumed = <<>> /\ lc = 0 /\ events = <<>>
          /\ ground = <<>> /\ functions = MapNew /\ resolved = <<>>
          /\ output = <<>>)
  /\ [][at # "refused"]_vars

\* A trace file with lines in it was refused for its missing header.
C14_Witness ==
  /\ at = "refused"
  /\ ~header
  /\ ~reader.any /\ Len(reader.rest) >= 3
  /\ error.err = "TraceFormat"

(***************************************************************************)
(* C15.                                                                    *)
(***************************************************************************)
\* The address a Call line names, or -1.
TargetOf(l) ==
  IF l.kind = "Call" /\ Len(l.text) >= 2 THEN hex_str_to_address(l.text[2]) ELSE -1

\* The lines of the file, by number, that call address a.
CallsOf(a) == {i \in 1..Len(consumed) : TargetOf(consumed[i]) = a}
FirstCallOf(a) == CHOOSE i \in CallsOf(a) : \A k \in CallsOf(a) : i <= k

\* C15: the entry program counter kept in a function's record, and given to
\* the resolver when the address is first seen, is the program counter of the
\* line that follows the first Call line to that address, not that of the
\* Call line.
C15_EntryPcOfNextLine ==
  \A a \in NonRootAddresses :
    FirstCallOf(a) < Len(consumed) =>
      /\ RecordOf(a).pc = consumed[FirstCallOf(a) + 1].pc
      /\ \A i \in 1..Len(resolved) :
           resolved[i].address = a =>
             resolved[i].first_pc = consumed[FirstCallOf(a) + 1].pc

(***************************************************************************)
(* C16.                                                                    *)
(***************************************************************************)
\* A pop of a frame whose parent is the root.
PopUnderRoot == PopStep /\ Len(ground) = 2

CallsOfRecord(fns, a) == MapGet(fns, a).calls

\* C16 as stated: a pop of a frame whose parent is the root folds the frame's
\* cost into the root frame's cost and leaves the call edges of every
\* function record as they were.
C16_NoEdgeUnderRoot ==
  [][PopUnderRoot =>
       /\ ground'[1].cost = ground[1].cost + ground[2].cost + 1
       /\ \A a \in Range(functions.keys) :
            CallsOfRecord(functions', a) = CallsOfRecord(functions, a)]_vars

\* C16 as amended: a pop of a frame whose parent is the root folds the
\* frame's cost into the root frame's cost and appends the call edge to the
\* record of the root address, which is never written as a function block;
\* the call edges of all other records are left as they were.  Only a frame
\* whose own address is the root address leaves no edge.
C16_EdgeInRootRecord ==
  [][PopUnderRoot =>
       LET popped == ground[2]
           before == CallsOfRecord(functions, GROUND_ZERO)
           after == CallsOfRecord(functions', GROUND_ZERO)
       IN /\ ground'[1].cost = ground[1].cost + popped.cost + 1
          /\ \A a \in Range(functions.keys) \ {GROUND_ZERO} :
               CallsOfRecord(functions', a) = CallsOfRecord(functions, a)
          /\ IF popped.address = GROUND_ZERO THEN after = before
             ELSE /\ Len(after) = Len(before) + 1
                  /\ SubSeq(after, 1, Len(before)) = before
                  /\ after[Len(after)].address = popped.address
                  /\ after[Len(after)].caller = GROUND_ZERO
                  /\ after[Len(after)].cost = popped.cost + 1]_vars

\* Two calls made by the root have been closed, and the report is written.
C16_Witness ==
  /\ at = "written"
  /\ Len(ground) = 1
  /\ Len(CallsOfRecord(functions, GROUND_ZERO)) = 2
  /\ \A i \in 1..2 : CallsOfRecord(functions, GROUND_ZERO)[i].caller = GROUND_ZERO
  /\ ground[1].cost >= 4

(***************************************************************************)
(* C17.                                                                    *)
(***************************************************************************)
C17_Step ==
  PushStep =>
    LET a == Innermost(ground').address
        unit == IF Innermost(ground).address = a THEN 1 ELSE 0
        new == MapGet(functions', a)
    IN IF contains_key(functions, a)
       THEN /\ new.name = MapGet(functions, a).name
            /\ new.pc = MapGet(functions, a).pc
            /\ new.calls = MapGet(functions, a).calls
            /\ new.cost = MapGet(functions, a).cost + unit
            /\ functions'.keys = functions.keys
            /\ dump' = dump /\ resolved' = resolved
       ELSE /\ new.cost = 0 /\ new.calls = <<>> /\ new.address = a
            /\ new.pc = line.pc
            /\ functions'.keys = Append(functions.keys, a)
            /\ resolved' = Append(resolved, Resolution(a, line.pc, new.name))

\* C17: a push to an address that has a record leaves the record's name,
\* entry program counter, cost and call edges as they are and does not call
\* the resolver, whatever program counter comes with it; a record is made,
\* with cost 0 and no edges, on the first push to an address only; the
\* resolver is called once per address and never for the root address.
C17_Idempotent ==
  /\ [][C17_Step]_vars
  /\ [](\A i, j \in 1..Len(resolved) :
          /\ resolved[i].address # GROUND_ZERO
          /\ resolved[i].address = resolved[j].address => i = j)
  /\ [](at \in {"outer", "inner"} => Len(resolved) = Cardinality(NonRootAddresses))

\* An address was pushed a second time from a Call line with another program
\* counter, after its record had gathered cost and an edge.
C17_Witness ==
  \E i, j \in 1..Len(consumed) :
    /\ i < j /\ j < Len(consumed)
    /\ TargetOf(consumed[i]) = 16 /\ TargetOf(consumed[j]) = 16
    /\ consumed[i].pc # consumed[j].pc
    /\ Alive /\ ~Held
    /\ RecordOf(16).pc = consumed[i].pc
    /\ RecordOf(16).cost >= 2
    /\ Len(RecordOf(16).calls) >= 1
    /\ Len(resolved) = 1

(***************************************************************************)
(* C18.                                                                    *)
(***************************************************************************)
\* The call loop holds a Call line whose address cannot be extracted.
NoAddress ==
  /\ at = "inner"
  /\ Len(line.text) < 2 \/ hex_str_to_address(line.text[2]) < 0

\* C18: a Call line whose address token is missing or is no hexadecimal
\* number ends the parse with the parse error that carries the text of the
\* line and its number, and no further line is read.
C18_AddressError ==
  [][NoAddress =>
       /\ at' = "returned_err"
       /\ error' = [err |-> "TraceParsing", text |-> line.text, lc |-> lc]
       /\ consumed' = consumed]_vars

(***************************************************************************)
(* C19.                                                                    *)
(***************************************************************************)
\* The elements of s in the order of their first occurrence.
RECURSIVE FirstOccurrences(_)
FirstOccurrences(s) ==
  IF s = <<>> THEN <<>>
  ELSE LET d == FirstOccurrences(SubSeq(s, 1, Len(s) - 1))
           x == s[Len(s)]
       IN IF x \in Range(d) THEN d ELSE Append(d, x)

\* The addresses other than the root's that the Call lines of ls name, in
\* the order of the lines.
RECURSIVE TargetsIn(_)
TargetsIn(ls) ==
  IF ls = <<>> THEN <<>>
  ELSE (IF TargetOf(Head(ls)) \in {-1, GROUND_ZERO} THEN <<>>
        ELSE <<TargetOf(Head(ls))>>) \o TargetsIn(Tail(ls))

\* Where the n-th function block of the report starts.
NthBlock(n) ==
  CHOOSE i \in BlockStarts : Cardinality({j \in BlockStarts : j < i}) = n - 1

CalleesInOrder(f) == FirstOccurrences([k \in 1..Len(f.calls) |-> f.calls[k].address])

C20_RegistryComplete ==
  /\ ground # <<>> => contains_key(functions, GROUND_ZERO)
  /\ \A i \in 1..Len(ground) : contains_key(functions, ground[i].address)
  /\ \A i \in 2..Len(ground) :
       /\ ground[i].caller = ground[i - 1].address
       /\ contains_key(functions, ground[i].caller)
  /\ \A c \in Edges :
       /\ contains_key(functions, c.address)
       /\ contains_key(functions, c.caller)
       /\ c \in Range(RecordOf(c.caller).calls)
  /\ \A a \in Range(functions.keys) : RecordOf(a).address = a

\* Two frames are open above the root, the innermost called by a function
\* that also has a recorded edge, and three functions are registered.
C20_Witness ==
  /\ Len(ground) = 3
  /\ Cardinality(Range(functions.keys)) = 3
  /\ ground[3].caller = ground[2].address
  /\ ground[1].address = GROUND_ZERO
  /\ Len(RecordOf(ground[2].address).calls) >= 1
  /\ ground[3].address # ground[2].address

(***************************************************************************)
(* C21.                                                                    *)
(***************************************************************************)
\* parse_trace_file has returned or panicked.
ParseDone == at \in {"returned_ok", "returned_err", "panicked"}
InLoop == at \in {"outer", "inner"}

\* What one step of the loops achieves: a line is read from the file, the
\* held line is cleared, the file answers with an empty read, or the loop is
\* left.
Progress ==
  \/ ReadStep
  \/ line # EmptyLine /\ line' = EmptyLine
  \/ bytes_read # 0 /\ bytes_read' = 0
  \/ ~InLoop'

\* C21: on every trace file parse_trace_file comes to an end: it returns the
\* profile, returns an error or panics.  Every step of the outer loop and of
\* the loop over consecutive calls reads a line, clears the held line or
\* leaves the loop, so no held line is processed again and again; after an
\* empty read nothing more is read and the loop is left.
C21_Terminates ==
  /\ [][InLoop => Progress]_vars
  /\ [][bytes_read = 0 => (consumed' = consumed /\ lc' = lc /\ ~InLoop')]_vars
  /\ [](bytes_read = 0 => at # "inner")
  /\ <>(ParseDone \/ at = "refused")

\* The parse has returned the profile after an empty read, having pushed two
\* frames in a row and processed the line held after them.
C21_Witness ==
  /\ at = "returned_ok"
  /\ bytes_read = 0
  /\ Len(consumed) = 3
  /\ consumed[1].kind = "Call" /\ consumed[2].kind = "Call"
  /\ consumed[3].kind = "Other"
  /\ lc = Len(consumed) + 1
  /\ reader.rest = <<>>

====
